---------------------------- MODULE Spec2Model ----------------------------
(***************************************************************************)
(* The ranking and scoring engine of the financial news summarizer         *)
(* (src/scorer.py), with the pieces of its callers that feed it            *)
(* (src/analyzer.py, src/news_sources.py, src/main.py).                    *)
(* After it, the scheduler start-up of the Streamlit script (src/main.py)  *)
(* and the chunked Discord poster (src/discord_ping.py).                   *)
(*                                                                         *)
(* Units.  Python floats are modelled by exact fixed-point integers:       *)
(*   - weights, source_weight, sentiment, catalyst_score, recency weights  *)
(*     and market signals are in hundredths (0.35 -> 35, 1.0 -> 100);      *)
(*   - scores, being products of two of those, are in ten-thousandths      *)
(*     (1.0925 -> 10925);                                                  *)
(*   - time is in minutes (2 h -> 120).                                    *)
(* Quotients the code compares with thresholds (pct, vol_mult) are kept as *)
(* exact fractions [num, den] and compared by cross-multiplication.        *)
(***************************************************************************)
EXTENDS Integers, Sequences, FiniteSets, TLC

VARIABLES
    articles,    \* the batch handed to score_articles_by_ticker
    clock,       \* the wall clock, read by dt.datetime.now(dt.timezone.utc)
    provider,    \* what yf.download answers for each ticker
    top_n,       \* the top_n the caller hands to to_ranked_list (0: not yet known)
    pc,          \* where the pass is: idle, run, returned, ranked, raised
    now,         \* the pass's local `now`
    idx,         \* position of the article loop (scorer.py:66)
    mk,          \* position of the market-reaction loop (scorer.py:82)
    per_ticker,  \* the insertion-ordered dict ticker -> bucket
    calls,       \* how often market_reaction_signal was invoked, per ticker
    ranked,      \* what to_ranked_list returned
    run,         \* number of passes started so far
    first_out,   \* what the first completed pass returned
    arg,         \* argument of a single function call (function-level runs)
    ret,         \* its result
    env,             \* the process environment read by main.py:23 and 41
    session_state,   \* st.session_state of the Streamlit session
    schedulers,      \* the BackgroundScheduler objects made in the session
    script,          \* where the script execution is: waiting, auto, init, button
    executions,      \* number of script executions begun in the session
    clicked,         \* the execution was triggered by a "Start scheduler" click
    disabled,        \* how the "Start scheduler" button was last rendered
    warnings,        \* number of st.warning calls of main.py:45
    chunks,      \* the local `chunks` of _post_discord_chunked
    sent,        \* the contents the webhook has been posted, in order
    all_ok       \* the local `all_ok` of _post_discord_chunked

(* The scoring pass, the Streamlit session and the Discord poster *)
pass_vars == <<articles, clock, provider, top_n, now, idx, mk, per_ticker,
               calls, ranked, run, first_out>>
ui_vars == <<env, session_state, schedulers, script, executions, clicked,
             disabled, warnings>>
discord_vars == <<chunks, sent, all_ok>>
app_vars == <<ui_vars, discord_vars>>

vars == <<articles, clock, provider, top_n, pc, now, idx, mk, per_ticker,
          calls, ranked, run, first_out, arg, ret, app_vars>>

---------------------------------------------------------------------------
(* Bounds of the model *)

MaxArticles == 2
MaxTopN == 3
MaxRuns == 2
MaxLocal == 3400
MaxBars == 22

(* Program constants: scorer.py:5-10, in hundredths *)
W_SOURCE == 35
W_SENTIMENT == 20
W_CATALYST == 20
W_RECENCY == 15
W_MARKET_REACTION == 10

(* The reading of the wall clock, in minutes, frozen for the whole run *)
Clock == 3000

Tickers == {"AAPL", "MSFT", "XYZ"}

Max(a, b) == IF a > b THEN a ELSE b
Min(a, b) == IF a < b THEN a ELSE b

(* An outcome of a Python call: a returned value or a raised exception *)
Ret(v) == [exc |-> "none", val |-> v]
Raise(e) == [exc |-> e, val |-> 0]
Pending == [exc |-> "pending", val |-> 0]

---------------------------------------------------------------------------
(* published_at values.  A string is kept by what Python does with it:     *)
(*   kind  "null"  None                                                    *)
(*         "empty" ""                                                      *)
(*         "text"  a non-ISO string starting with a letter ("yesterday")   *)
(*         "iso"   "YYYY-MM-DDTHH:MM:SS" + off, whose fixed-width          *)
(*                 date-time part reads as `local` minutes and whose       *)
(*                 suffix off is "" (no offset), "Z", "+00:00", "+05:00"   *)
(*                 or "-05:00".                                            *)

Offsets == {"", "Z", "+00:00", "+05:00", "-05:00"}

Null == [kind |-> "null", local |-> 0, off |-> ""]
EmptyStr == [kind |-> "empty", local |-> 0, off |-> ""]
Text == [kind |-> "text", local |-> 0, off |-> ""]
Iso(local, off) == [kind |-> "iso", local |-> local, off |-> off]

(* The UTC offset a suffix denotes, in minutes *)
UtcOffset(off) ==
    CASE off = "+05:00" -> 300
      [] off = "-05:00" -> 0 - 300
      [] OTHER -> 0

(* str.replace("Z", "+00:00"), scorer.py:16; None has no replace *)
ReplaceZ(p) ==
    IF p.kind = "null" THEN Raise("AttributeError")
    ELSE IF p.kind = "iso" /\ p.off = "Z" THEN Ret(Iso(p.local, "+00:00"))
    ELSE Ret(p)

(* dt.datetime.fromisoformat: a datetime that is aware (it denotes the     *)
(* instant local - offset) or naive (no tzinfo), or a ValueError           *)
fromisoformat(p) ==
    IF p.kind # "iso" THEN Raise("ValueError")
    ELSE IF p.off = "" THEN Ret([aware |-> FALSE, instant |-> p.local])
    ELSE Ret([aware |-> TRUE, instant |-> p.local - UtcOffset(p.off)])

(* scorer.py:13-27.  now is offset-aware (scorer.py:64), so subtracting a  *)
(* naive datetime from it raises TypeError, outside the try block.         *)
recency_weight(published_iso, t_now) ==
    LET replaced == ReplaceZ(published_iso)
        published == IF replaced.exc = "none" THEN fromisoformat(replaced.val)
                     ELSE replaced
    IN  IF published.exc # "none" THEN Ret(70)
        ELSE IF ~published.val.aware THEN Raise("TypeError")
        ELSE LET minutes == Max(0, t_now - published.val.instant)
             IN  IF minutes <= 2 * 60 THEN Ret(100)
                 ELSE IF minutes <= 24 * 60 THEN Ret(90)
                 ELSE IF minutes <= 48 * 60 THEN Ret(75)
                 ELSE Ret(50)

---------------------------------------------------------------------------
(* The market-data provider's answer to yf.download(ticker, ...):          *)
(*   kind "data"  a frame of daily bars [Close, Volume], oldest first      *)
(*        "none"  None                                                     *)
(*        "raise" an exception                                             *)
(*        "hang"  the call never returns                                   *)

Data(bars) == [kind |-> "data", bars |-> bars]
NoData == [kind |-> "none", bars |-> <<>>]
Raises == [kind |-> "raise", bars |-> <<>>]
Hangs == [kind |-> "hang", bars |-> <<>>]

(* n daily bars: the oldest with volume vOld, the others before the latest *)
(* with volume vMid, all of them closing at cPrev; the latest closes at    *)
(* cToday on volume vToday                                                 *)
History(n, cPrev, cToday, vOld, vMid, vToday) ==
    [k \in 1..n |->
        IF k = n THEN [Close |-> cToday, Volume |-> vToday]
        ELSE [Close |-> cPrev, Volume |-> IF k = 1 THEN vOld ELSE vMid]]

RECURSIVE SumVolume(_)
SumVolume(bars) ==
    IF bars = <<>> THEN 0 ELSE Head(bars).Volume + SumVolume(Tail(bars))

(* data["Volume"].iloc[:-1]: every bar before the latest *)
IlocAllButLast(bars) == SubSeq(bars, 1, Len(bars) - 1)

(* data["Volume"].iloc[-21:-1]: the (at most) 20 bars before the latest *)
Iloc21to1(bars) == SubSeq(bars, Max(1, Len(bars) - 20), Len(bars) - 1)

(* r > a/b and r < a/b for a fraction r = [num, den], den > 0, b > 0 *)
FracGT(r, a, b) == r.num * b > a * r.den
FracLT(r, a, b) == r.num * b < a * r.den

(* scorer.py:41-55, for a frame of at least 2 bars; in hundredths *)
signal_of(bars) ==
    LET today == bars[Len(bars)]
        prev == bars[Len(bars) - 1]
        window == Iloc21to1(bars)
        avg_vol == [num |-> SumVolume(window), den |-> Len(window)]
        pct == [num |-> (today.Close - prev.Close) * 100, den |-> prev.Close]
        floor_vol == IF FracGT(avg_vol, 1, 1) THEN avg_vol
                     ELSE [num |-> 1, den |-> 1]
        vol_mult == [num |-> today.Volume * floor_vol.den, den |-> floor_vol.num]
        score == (IF FracGT(pct, 3, 2) THEN 50 ELSE 0)
               - (IF FracLT(pct, 0 - 3, 2) THEN 50 ELSE 0)
               + (IF FracGT(vol_mult, 3, 2) THEN 50 ELSE 0)
               - (IF FracLT(vol_mult, 3, 5) THEN 30 ELSE 0)
    IN  Max(0 - 100, Min(100, score))

(* scorer.py:38-55: the body of the try block.  The provider is asked to   *)
(* answer here; a provider that hangs is never asked (see MarketReaction). *)
signal_try(resp) ==
    IF resp.kind = "raise" THEN Raise("Exception")
    ELSE IF resp.kind = "none" \/ Len(resp.bars) < 21 THEN Ret(0)
    ELSE Ret(signal_of(resp.bars))

(* scorer.py:30-57 without the except clause *)
market_reaction_signal_unguarded(resp) == signal_try(resp)

(* scorer.py:30-57: except Exception: return 0.0 *)
market_reaction_signal(resp) ==
    LET r == signal_try(resp)
    IN  IF r.exc # "none" THEN Ret(0) ELSE r

---------------------------------------------------------------------------
(* Articles, as analyzer.analyze_article builds them and                   *)
(* storage.recent_articles hands them over: tickers is a sorted list       *)
(* without duplicates (analyzer.py:98), source_weight one of the           *)
(* credibility priors (news_sources.py:18-26).                             *)

Article(tickers, published_at, source_weight, sentiment, catalyst_score) ==
    [tickers |-> tickers, published_at |-> published_at,
     source_weight |-> source_weight, sentiment |-> sentiment,
     catalyst_score |-> catalyst_score]

(* The batch is drawn from these articles *)
Fixtures ==
    { Article(<<"XYZ">>, Iso(Clock, "+00:00"), 100, 0, 0),
      Article(<<"XYZ">>, Iso(Clock - 1800, "+00:00"), 70, 50, 100),
      Article(<<"AAPL", "XYZ">>, Iso(Clock + 240, "+05:00"), 85, 0 - 50, 0 - 110),
      Article(<<"AAPL", "MSFT", "XYZ">>, EmptyStr, 100, 0, 0),
      Article(<<>>, Iso(Clock, ""), 95, 50, 0),
      Article(<<"MSFT">>, Null, 90, 0, 60),
      Article(<<"MSFT">>, Iso(Clock - 200, ""), 70, 0, 0),
      Article(<<"AAPL">>, Text, 70, 0, 0) }

Batches == UNION { [1..n -> Fixtures] : n \in 0..MaxArticles }

RECURSIVE Mentioned(_)
Mentioned(batch) ==
    IF batch = <<>> THEN {}
    ELSE { Head(batch).tickers[k] : k \in DOMAIN Head(batch).tickers }
         \cup Mentioned(Tail(batch))

(* A month of bars that ends on a +2% close at twice the usual volume, and *)
(* a listing only 20 bars old                                              *)
SpikeHistory == History(21, 1000, 1020, 100, 100, 200)
ShortHistory == History(20, 1000, 1020, 100, 100, 200)

Responses == {Data(SpikeHistory), Data(ShortHistory), NoData, Raises, Hangs}

Providers(batch) ==
    { f \in [Tickers -> Responses] :
        \A t \in Tickers \ Mentioned(batch) : f[t] = NoData }

---------------------------------------------------------------------------
(* score_articles_by_ticker, scorer.py:60-90 *)

(* scorer.py:70-75 with the weights of source and recency exchanged *)
art_score_weights_swapped(a, r_w) ==
    W_RECENCY * a.source_weight + W_SENTIMENT * a.sentiment
      + W_CATALYST * a.catalyst_score + W_SOURCE * r_w

(* scorer.py:70-75 *)
art_score(a, r_w) ==
    W_SOURCE * a.source_weight + W_SENTIMENT * a.sentiment
      + W_CATALYST * a.catalyst_score + W_RECENCY * r_w

(* The position of ticker t in the dict, 0 when it is no key *)
KeyIndex(pt, t) ==
    IF \E k \in DOMAIN pt : pt[k].ticker = t
    THEN CHOOSE k \in DOMAIN pt : pt[k].ticker = t
    ELSE 0

(* scorer.py:77-79: setdefault, then add the score and append the article  *)
(* (articles are held by reference: by their position in the batch)        *)
AddToBucket(pt, t, score, i) ==
    LET k == KeyIndex(pt, t)
        withKey == IF k = 0
                   THEN Append(pt, [ticker |-> t, score |-> 0, articles |-> <<>>])
                   ELSE pt
        j == IF k = 0 THEN Len(withKey) ELSE k
    IN  [withKey EXCEPT ![j].score = @ + score, ![j].articles = Append(@, i)]

(* scorer.py:76-79 with the article's score shared out among its tickers *)
RECURSIVE FanOutShare(_, _, _, _)
FanOutShare(pt, tickers, share, i) ==
    IF tickers = <<>> THEN pt
    ELSE FanOutShare(AddToBucket(pt, Head(tickers), share, i), Tail(tickers), share, i)

FanOutSplit(pt, tickers, score, i) ==
    IF tickers = <<>> THEN pt
    ELSE FanOutShare(pt, tickers, score \div Len(tickers), i)

(* scorer.py:76-79 *)
RECURSIVE FanOut(_, _, _, _)
FanOut(pt, tickers, score, i) ==
    IF tickers = <<>> THEN pt
    ELSE FanOut(AddToBucket(pt, Head(tickers), score, i), Tail(tickers), score, i)

(* scorer.py:83 with the market term counted once per article *)
AddMarketReactionPerArticle(bucket, signal) ==
    [bucket EXCEPT !.score = @ + W_MARKET_REACTION * signal * Len(bucket.articles)]

(* scorer.py:83 *)
AddMarketReaction(bucket, signal) ==
    [bucket EXCEPT !.score = @ + W_MARKET_REACTION * signal]

(* scorer.py:87-88: the sort key x.get("published_at") or "", a Python     *)
(* string, kept as <<class, local, suffix>> so that the tuples' order is   *)
(* the strings' order: "" sorts lowest, digits sort below letters, the     *)
(* fixed-width date-time part sorts as its reading, and the suffixes sort  *)
(* "" < "+00:00" < "+05:00" < "-05:00" < "Z" (code points 43, 45, 90).     *)
SuffixRank(off) ==
    CASE off = "" -> 0
      [] off = "+00:00" -> 1
      [] off = "+05:00" -> 2
      [] off = "-05:00" -> 3
      [] OTHER -> 4

SortKey(p) ==
    CASE p.kind = "iso" -> <<1, p.local, SuffixRank(p.off)>>
      [] p.kind = "text" -> <<2, 0, 0>>
      [] OTHER -> <<0, 0, 0>>

StrLess(x, y) ==
    \/ x[1] < y[1]
    \/ x[1] = y[1] /\ x[2] < y[2]
    \/ x[1] = y[1] /\ x[2] = y[2] /\ x[3] < y[3]

(* list.sort(key=..., reverse=True) is stable: x goes before the first     *)
(* element whose key is smaller, after every element whose key is equal    *)
RECURSIVE InsertArticle(_, _)
InsertArticle(sorted, i) ==
    IF sorted = <<>> THEN <<i>>
    ELSE IF StrLess(SortKey(articles[Head(sorted)].published_at),
                    SortKey(articles[i].published_at))
         THEN <<i>> \o sorted
         ELSE <<Head(sorted)>> \o InsertArticle(Tail(sorted), i)

RECURSIVE SortFrom(_, _)
SortFrom(sorted, rest) ==
    IF rest = <<>> THEN sorted
    ELSE SortFrom(InsertArticle(sorted, Head(rest)), Tail(rest))

(* scorer.py:87-88 *)
sort_articles(list) == SortFrom(<<>>, list)

---------------------------------------------------------------------------
(* to_ranked_list, scorer.py:93-99 *)

(* An unstable descending sort: an entry goes before its equals *)
RECURSIVE InsertEntryBeforeEquals(_, _)
InsertEntryBeforeEquals(sorted, e) ==
    IF sorted = <<>> THEN <<e>>
    ELSE IF Head(sorted).score <= e.score
         THEN <<e>> \o sorted
         ELSE <<Head(sorted)>> \o InsertEntryBeforeEquals(Tail(sorted), e)

RECURSIVE InsertEntry(_, _)
InsertEntry(sorted, e) ==
    IF sorted = <<>> THEN <<e>>
    ELSE IF Head(sorted).score < e.score
         THEN <<e>> \o sorted
         ELSE <<Head(sorted)>> \o InsertEntry(Tail(sorted), e)

RECURSIVE RankFrom(_, _)
RankFrom(sorted, rest) ==
    IF rest = <<>> THEN sorted
    ELSE RankFrom(InsertEntry(sorted, Head(rest)), Tail(rest))

(* scorer.py:94-98: sorted(..., key=score, reverse=True), stable *)
sorted_by_score(pt) ==
    RankFrom(<<>>, [k \in DOMAIN pt |->
                      [ticker |-> pt[k].ticker, score |-> pt[k].score,
                       bucket |-> pt[k]]])

(* scorer.py:99: ranked[:top_n], top_n > 0 *)
to_ranked_list(pt, n) ==
    LET r == sorted_by_score(pt) IN SubSeq(r, 1, Min(n, Len(r)))

---------------------------------------------------------------------------
(* The pass, step by step *)

NoCalls == [t \in Tickers |-> 0]
NoOutput == [per_ticker |-> <<>>, ranked |-> <<>>, set |-> FALSE]

(* CRONS as main.py:32-34 reads it: the fields between the commas, each    *)
(* the parts between its colons, a part being an integer literal or not    *)
Part(v) == [int |-> TRUE, val |-> v]
NotAnInt == [int |-> FALSE, val |-> 0]
DefaultCrons == << <<Part(9), Part(15)>>, <<Part(12), Part(30)>>, <<Part(16), Part(10)>> >>

(* A session in which no script has run yet: st.session_state is empty *)
NoSessionState == [has |-> FALSE, scheduler_started |-> FALSE]

UiIdle ==
    /\ env = [AUTO_START_SCHEDULER |-> "1", CRONS |-> DefaultCrons]
    /\ session_state = NoSessionState
    /\ schedulers = <<>>
    /\ script = "waiting"
    /\ executions = 0
    /\ clicked = FALSE
    /\ disabled = FALSE
    /\ warnings = 0

DiscordIdle ==
    /\ chunks = <<>>
    /\ sent = <<>>
    /\ all_ok = TRUE

AppIdle == UiIdle /\ DiscordIdle

Init ==
    /\ articles \in Batches
    /\ clock = Clock
    /\ provider \in Providers(articles)
    /\ top_n = 0
    /\ pc = "idle"
    /\ now = 0
    /\ idx = 1
    /\ mk = 1
    /\ per_ticker = <<>>
    /\ calls = NoCalls
    /\ ranked = <<>>
    /\ run = 0
    /\ first_out = NoOutput
    /\ arg = <<>>
    /\ ret = Pending
    /\ AppIdle

(* scorer.py:64-65 with the dict kept from one call to the next, as a      *)
(* mutable default argument or a module-level dict would be                *)
EnterKeepingBuckets ==
    /\ pc \in {"idle", "ranked"}
    /\ run < MaxRuns
    /\ run' = run + 1
    /\ first_out' = IF pc = "ranked" /\ ~first_out.set
                    THEN [per_ticker |-> per_ticker, ranked |-> ranked, set |-> TRUE]
                    ELSE first_out
    /\ now' = clock
    /\ idx' = 1
    /\ mk' = 1
    /\ calls' = NoCalls
    /\ ranked' = <<>>
    /\ pc' = "run"
    /\ UNCHANGED app_vars
    /\ UNCHANGED <<articles, clock, provider, top_n, per_ticker, arg, ret>>

(* main.py:89-90 calls score_articles_by_ticker, on load and on every      *)
(* scheduled or requested run; scorer.py:64-65 starts the pass afresh      *)
Enter ==
    /\ pc \in {"idle", "ranked"}
    /\ run < MaxRuns
    /\ run' = run + 1
    /\ first_out' = IF pc = "ranked" /\ ~first_out.set
                    THEN [per_ticker |-> per_ticker, ranked |-> ranked, set |-> TRUE]
                    ELSE first_out
    /\ now' = clock
    /\ per_ticker' = <<>>
    /\ idx' = 1
    /\ mk' = 1
    /\ calls' = NoCalls
    /\ ranked' = <<>>
    /\ pc' = "run"
    /\ UNCHANGED app_vars
    /\ UNCHANGED <<articles, clock, provider, top_n, arg, ret>>

(* scorer.py:66-79: one turn of the article loop *)
AggregateArticle ==
    /\ pc = "run"
    /\ idx <= Len(articles)
    /\ LET a == articles[idx]
           r_w == recency_weight(a.published_at, now)
       IN  IF a.tickers = <<>>
           THEN /\ idx' = idx + 1
                /\ UNCHANGED <<pc, per_ticker>>
           ELSE IF r_w.exc # "none"
           THEN /\ pc' = "raised"
                /\ UNCHANGED <<idx, per_ticker>>
           ELSE /\ per_ticker' = FanOut(per_ticker, a.tickers,
                                        art_score(a, r_w.val), idx)
                /\ idx' = idx + 1
                /\ UNCHANGED pc
    /\ UNCHANGED app_vars
    /\ UNCHANGED <<articles, clock, provider, top_n, now, mk, calls, ranked,
                   run, first_out, arg, ret>>

(* scorer.py:82-83: one turn of the market-reaction loop.  The call is     *)
(* synchronous: the turn ends when yf.download answers, and a provider     *)
(* that never answers never ends it.  The loop has no handler of its own:  *)
(* an exception leaving market_reaction_signal would leave the pass.       *)
MarketReaction ==
    /\ pc = "run"
    /\ idx > Len(articles)
    /\ mk <= Len(per_ticker)
    /\ LET t == per_ticker[mk].ticker
           signal == market_reaction_signal(provider[t])
       IN  /\ provider[t].kind # "hang"
           /\ calls' = [calls EXCEPT ![t] = @ + 1]
           /\ IF signal.exc # "none"
              THEN /\ pc' = "raised"
                   /\ UNCHANGED <<per_ticker, mk>>
              ELSE /\ per_ticker' = [per_ticker EXCEPT ![mk] =
                                        AddMarketReaction(@, signal.val)]
                   /\ mk' = mk + 1
                   /\ UNCHANGED pc
    /\ UNCHANGED app_vars
    /\ UNCHANGED <<articles, clock, provider, top_n, now, idx, ranked,
                   run, first_out, arg, ret>>

(* scorer.py:86-90 *)
SortAndReturn ==
    /\ pc = "run"
    /\ idx > Len(articles)
    /\ mk > Len(per_ticker)
    /\ per_ticker' = [k \in DOMAIN per_ticker |->
                        [per_ticker[k] EXCEPT !.articles = sort_articles(@)]]
    /\ pc' = "returned"
    /\ UNCHANGED app_vars
    /\ UNCHANGED <<articles, clock, provider, top_n, now, idx, mk, calls,
                   ranked, run, first_out, arg, ret>>

(* main.py:91: the caller ranks what the pass returned.  Its top_n is any  *)
(* positive integer, the same one in every run.                            *)
Rank ==
    /\ pc = "returned"
    /\ \E n \in 1..MaxTopN :
          /\ top_n \in {0, n}
          /\ top_n' = n
          /\ ranked' = to_ranked_list(per_ticker, n)
    /\ pc' = "ranked"
    /\ UNCHANGED app_vars
    /\ UNCHANGED <<articles, clock, provider, now, idx, mk, per_ticker,
                   calls, run, first_out, arg, ret>>

Next ==
    \/ Enter
    \/ AggregateArticle
    \/ MarketReaction
    \/ SortAndReturn
    \/ Rank

Spec == Init /\ [][Next]_vars

(* The pass is sequential code: a step that can be taken is taken *)
FairSpec == Spec /\ WF_vars(Next)

---------------------------------------------------------------------------
(* Single calls of the two leaf functions, on inputs of their whole domain *)

Idle ==
    /\ articles = <<>>
    /\ clock = Clock
    /\ provider = [t \in Tickers |-> NoData]
    /\ top_n = 0
    /\ now = 0
    /\ idx = 1
    /\ mk = 1
    /\ per_ticker = <<>>
    /\ calls = NoCalls
    /\ ranked = <<>>
    /\ run = 0
    /\ first_out = NoOutput

PublishedSet ==
    {Null, EmptyStr, Text} \cup { Iso(l, o) : l \in 0..MaxLocal, o \in Offsets }

InitRecency ==
    /\ Idle
    /\ AppIdle
    /\ pc = "recency_weight"
    /\ arg \in [published_iso : PublishedSet, now : {Clock, Clock + 45}]
    /\ ret = Pending

(* scorer.py:13-27 *)
CallRecency ==
    /\ pc = "recency_weight"
    /\ ret = Pending
    /\ ret' = recency_weight(arg.published_iso, arg.now)
    /\ UNCHANGED app_vars
    /\ UNCHANGED <<articles, clock, provider, top_n, pc, now, idx, mk,
                   per_ticker, calls, ranked, run, first_out, arg>>

SpecRecency == InitRecency /\ [][CallRecency]_vars

Frames ==
    { History(n, cPrev, cToday, vOld, vMid, vToday) :
        n \in {0, 1} \cup 20..MaxBars,
        cPrev \in {200, 1000},
        cToday \in {196, 197, 200, 203, 204, 984, 985, 1000, 1015, 1016},
        vOld \in {0, 100, 5000},
        vMid \in {0, 100},
        vToday \in {0, 1, 2, 59, 60, 61, 100, 150, 151} }

InitSignal ==
    /\ Idle
    /\ AppIdle
    /\ pc = "market_reaction_signal"
    /\ arg \in {NoData, Raises} \cup { Data(f) : f \in Frames }
    /\ ret = Pending

(* scorer.py:30-57 *)
CallSignal ==
    /\ pc = "market_reaction_signal"
    /\ ret = Pending
    /\ ret' = market_reaction_signal(arg)
    /\ UNCHANGED app_vars
    /\ UNCHANGED <<articles, clock, provider, top_n, pc, now, idx, mk,
                   per_ticker, calls, ranked, run, first_out, arg>>

SpecSignal == InitSignal /\ [][CallSignal]_vars

---------------------------------------------------------------------------
(* The Streamlit session of main.py.  Streamlit runs the script from top   *)
(* to bottom on the initial load and again on every interaction;           *)
(* st.session_state outlives the executions.                               *)

MaxExecutions == 4

(* hh, mm = [int(x) for x in t.split(":")], main.py:34 *)
WellFormed(field) == Len(field) = 2 /\ \A k \in DOMAIN field : field[k].int

(* The number of jobs main.py:33-36 adds before a field fails to parse *)
RECURSIVE JobsAdded(_)
JobsAdded(times) ==
    IF times = <<>> \/ ~WellFormed(Head(times)) THEN 0
    ELSE 1 + JobsAdded(Tail(times))

(* main.py:28-38.  Reading a key st.session_state does not hold raises     *)
(* AttributeError; a field that does not parse raises ValueError after the *)
(* scheduler object was made and before it is started.                     *)
start_scheduler(ss, scheds, times) ==
    IF ~ss.has
    THEN [exc |-> "AttributeError", session_state |-> ss, schedulers |-> scheds]
    ELSE IF ss.scheduler_started
    THEN [exc |-> "none", session_state |-> ss, schedulers |-> scheds]
    ELSE IF JobsAdded(times) < Len(times)
    THEN [exc |-> "ValueError", session_state |-> ss,
          schedulers |-> Append(scheds, [jobs |-> JobsAdded(times), running |-> FALSE])]
    ELSE [exc |-> "none",
          session_state |-> [ss EXCEPT !.scheduler_started = TRUE],
          schedulers |-> Append(scheds, [jobs |-> Len(times), running |-> TRUE])]

Environments ==
    [AUTO_START_SCHEDULER : {"1", "0"},
     CRONS : {DefaultCrons, <<>>, << <<Part(9), Part(15)>>, <<NotAnInt>> >>}]

InitSession ==
    /\ Idle
    /\ DiscordIdle
    /\ pc = "streamlit"
    /\ arg = <<>>
    /\ ret = Pending
    /\ env \in Environments
    /\ session_state = NoSessionState
    /\ schedulers = <<>>
    /\ script = "waiting"
    /\ executions = 0
    /\ clicked = FALSE
    /\ disabled = FALSE
    /\ warnings = 0

(* The initial load, or a rerun: any interaction reruns the script, and    *)
(* the interaction can be a click on "Start scheduler" when the button was *)
(* rendered enabled                                                        *)
BeginExecution ==
    /\ pc = "streamlit"
    /\ script = "waiting"
    /\ executions < MaxExecutions
    /\ executions' = executions + 1
    /\ clicked' \in (IF executions >= 1 /\ ~disabled THEN BOOLEAN ELSE {FALSE})
    /\ script' = "auto"
    /\ UNCHANGED <<env, session_state, schedulers, disabled, warnings>>
    /\ UNCHANGED <<pass_vars, discord_vars, pc, arg, ret>>

(* main.py:41-45 *)
AutoStart ==
    /\ pc = "streamlit"
    /\ script = "auto"
    /\ IF env.AUTO_START_SCHEDULER = "1"
       THEN LET r == start_scheduler(session_state, schedulers, env.CRONS)
            IN  /\ session_state' = r.session_state
                /\ schedulers' = r.schedulers
                /\ warnings' = IF r.exc # "none" THEN warnings + 1 ELSE warnings
       ELSE UNCHANGED <<session_state, schedulers, warnings>>
    /\ script' = "init"
    /\ UNCHANGED <<env, executions, clicked, disabled>>
    /\ UNCHANGED <<pass_vars, discord_vars, pc, arg, ret>>

(* main.py:47-48 *)
InitSessionState ==
    /\ pc = "streamlit"
    /\ script = "init"
    /\ session_state' = IF session_state.has THEN session_state
                        ELSE [has |-> TRUE, scheduler_started |-> FALSE]
    /\ script' = "button"
    /\ UNCHANGED <<env, schedulers, executions, clicked, disabled, warnings>>
    /\ UNCHANGED <<pass_vars, discord_vars, pc, arg, ret>>

(* main.py:172-174, the rest of the script leaving the scheduler alone.    *)
(* The button is rendered with disabled = scheduler_started; st.button     *)
(* returns True at most in an execution its click triggered (whether it    *)
(* still does when it is now rendered disabled is Streamlit's choice).     *)
(* An exception leaving start_scheduler here ends the execution.           *)
StartButton ==
    /\ pc = "streamlit"
    /\ script = "button"
    /\ disabled' = session_state.scheduler_started
    /\ \E pressed \in (IF clicked THEN BOOLEAN ELSE {FALSE}) :
          IF pressed
          THEN LET r == start_scheduler(session_state, schedulers, env.CRONS)
               IN  /\ session_state' = r.session_state
                   /\ schedulers' = r.schedulers
          ELSE UNCHANGED <<session_state, schedulers>>
    /\ script' = "waiting"
    /\ clicked' = FALSE
    /\ UNCHANGED <<env, executions, warnings>>
    /\ UNCHANGED <<pass_vars, discord_vars, pc, arg, ret>>

NextSession ==
    \/ BeginExecution
    \/ AutoStart
    \/ InitSessionState
    \/ StartButton

SpecSession == InitSession /\ [][NextSession]_vars

---------------------------------------------------------------------------
(* _post_discord_chunked, discord_ping.py:26-51.  A Python string is the   *)
(* sequence of its characters.                                             *)

MaxContent == 5
MaxChunkLen == 3

LF == "\n"
Alphabet == {"a", "b", LF}

(* The position of the first line feed of s, 0 when it has none *)
FirstLF(s) ==
    IF \E k \in DOMAIN s : s[k] = LF
    THEN CHOOSE k \in DOMAIN s : s[k] = LF /\ \A j \in 1..(k - 1) : s[j] # LF
    ELSE 0

(* str.splitlines(), discord_ping.py:29: a line feed ends a line, so "" has *)
(* no line and a final line feed opens no further line                     *)
RECURSIVE splitlines(_)
splitlines(s) ==
    IF s = <<>> THEN <<>>
    ELSE IF FirstLF(s) = 0 THEN <<s>>
    ELSE <<SubSeq(s, 1, FirstLF(s) - 1)>> \o splitlines(SubSeq(s, FirstLF(s) + 1, Len(s)))

(* discord_ping.py:32-36: one turn of the loop over the lines, on the      *)
(* locals [chunks, buf]                                                    *)
AddLine(loc, ln, max_len) ==
    IF Len(loc.buf) + Len(ln) + 1 > max_len
    THEN [chunks |-> Append(loc.chunks, loc.buf), buf |-> ln]
    ELSE [chunks |-> loc.chunks,
          buf |-> IF loc.buf # <<>> THEN loc.buf \o <<LF>> \o ln ELSE ln]

RECURSIVE AddLines(_, _, _)
AddLines(loc, lines, max_len) ==
    IF lines = <<>> THEN loc
    ELSE AddLines(AddLine(loc, Head(lines), max_len), Tail(lines), max_len)

(* discord_ping.py:29-38: the chunks of a content *)
Chunks(content, max_len) ==
    LET loc == AddLines([chunks |-> <<>>, buf |-> <<>>], splitlines(content), max_len)
    IN  IF loc.buf # <<>> THEN Append(loc.chunks, loc.buf) ELSE loc.chunks

Contents == UNION { [1..n -> Alphabet] : n \in 0..MaxContent }

InitDiscord ==
    /\ Idle
    /\ UiIdle
    /\ pc = "_post_discord_chunked"
    /\ arg \in [webhook_url : {"", "https://discord.com/api/webhooks/1"},
                content : Contents,
                max_len : 1..MaxChunkLen]
    /\ ret = Pending
    /\ chunks = <<>>
    /\ sent = <<>>
    /\ all_ok = TRUE

(* discord_ping.py:27-41: without webhook the call returns at once, else   *)
(* the content is cut into chunks                                          *)
SplitContent ==
    /\ pc = "_post_discord_chunked"
    /\ IF arg.webhook_url = ""
       THEN /\ ret' = Ret([ok |-> FALSE, chunks |-> 0])
            /\ pc' = "posted"
            /\ UNCHANGED chunks
       ELSE /\ chunks' = Chunks(arg.content, arg.max_len)
            /\ pc' = "posting"
            /\ UNCHANGED ret
    /\ UNCHANGED <<sent, all_ok>>
    /\ UNCHANGED <<pass_vars, ui_vars, arg>>

(* discord_ping.py:42-50: the next chunk is posted; the webhook answers    *)
(* with a 2xx status, with another status, or the request raises           *)
PostChunk ==
    /\ pc = "posting"
    /\ Len(sent) < Len(chunks)
    /\ sent' = Append(sent, chunks[Len(sent) + 1])
    /\ \E answer \in {"2xx", "error", "raise"} :
          all_ok' = (all_ok /\ answer = "2xx")
    /\ UNCHANGED <<chunks, pc, ret>>
    /\ UNCHANGED <<pass_vars, ui_vars, arg>>

(* discord_ping.py:51 *)
ReturnPosted ==
    /\ pc = "posting"
    /\ Len(sent) = Len(chunks)
    /\ ret' = Ret([ok |-> all_ok, chunks |-> Len(chunks)])
    /\ pc' = "posted"
    /\ UNCHANGED <<chunks, sent, all_ok>>
    /\ UNCHANGED <<pass_vars, ui_vars, arg>>

NextDiscord ==
    \/ SplitContent
    \/ PostChunk
    \/ ReturnPosted

SpecDiscord == InitDiscord /\ [][NextDiscord]_vars

---------------------------------------------------------------------------
(* What the claims speak of *)

Returned == pc \in {"returned", "ranked"}

(* The tickers listed by at least one article of the batch *)
Listed == { t \in Tickers :
              \E i \in DOMAIN articles :
                 \E j \in DOMAIN articles[i].tickers : articles[i].tickers[j] = t }

Lists(i, t) == \E j \in DOMAIN articles[i].tickers : articles[i].tickers[j] = t

Keys == { per_ticker[k].ticker : k \in DOMAIN per_ticker }

(* The article-level score of article i in this pass *)
ScoreOf(i) == art_score(articles[i], recency_weight(articles[i].published_at, now).val)

RECURSIVE SumOver(_)
SumOver(list) == IF list = <<>> THEN 0 ELSE ScoreOf(Head(list)) + SumOver(Tail(list))

RECURSIVE SumOfSet(_)
SumOfSet(S) ==
    IF S = {} THEN 0
    ELSE LET i == CHOOSE x \in S : TRUE IN ScoreOf(i) + SumOfSet(S \ {i})

Occurrences(list, i) == Cardinality({ k \in DOMAIN list : list[k] = i })

(* The market term of ticker t: 0.10 * market_reaction_signal(t) *)
MarketTerm(t) == W_MARKET_REACTION * market_reaction_signal(provider[t]).val

(* C1: once score_articles_by_ticker has returned, every bucket's score is *)
(* the sum of the article-level scores of the entries of its article list  *)
(* plus one term 0.10 * market_reaction_signal(ticker), and                *)
(* market_reaction_signal was invoked once for every ticker of the mapping *)
(* and for no other ticker.                                                *)
C1_ScoreIsArticlesPlusOneMarketTerm ==
    Returned =>
       /\ \A k \in DOMAIN per_ticker :
             /\ per_ticker[k].score =
                   SumOver(per_ticker[k].articles) + MarketTerm(per_ticker[k].ticker)
             /\ calls[per_ticker[k].ticker] = 1
       /\ \A t \in Tickers \ Keys : calls[t] = 0

(* A returned pass with a ticker that two articles mention and whose       *)
(* market signal is not zero, and a second ticker beside it                *)
C1_Witness ==
    /\ pc = "returned"
    /\ Len(per_ticker) >= 2
    /\ \E k \in DOMAIN per_ticker :
          /\ Len(per_ticker[k].articles) = 2
          /\ MarketTerm(per_ticker[k].ticker) # 0

(* C2: the keys of the returned mapping are the tickers some article       *)
(* lists; the bucket of t holds each article listing t once and no other;  *)
(* each of them adds its full score to the bucket; an article without      *)
(* tickers is in no bucket; an empty batch gives an empty mapping.         *)
C2_FanOut ==
    Returned =>
       /\ Keys = Listed
       /\ \A k, l \in DOMAIN per_ticker :
             per_ticker[k].ticker = per_ticker[l].ticker => k = l
       /\ \A k \in DOMAIN per_ticker :
             LET b == per_ticker[k]
                 listing == { i \in DOMAIN articles : Lists(i, b.ticker) }
             IN  /\ \A i \in DOMAIN articles :
                       Occurrences(b.articles, i) = IF i \in listing THEN 1 ELSE 0
                 /\ Len(b.articles) = Cardinality(listing)
                 /\ b.score - MarketTerm(b.ticker) = SumOfSet(listing)
       /\ articles = <<>> => per_ticker = <<>>

(* A returned pass over an article with several tickers, an article with   *)
(* none and hence a bucket for each of the tickers of the first            *)
C2_Witness ==
    /\ pc = "returned"
    /\ \E i, j \in DOMAIN articles :
          /\ Len(articles[i].tickers) >= 2
          /\ articles[j].tickers = <<>>
    /\ Len(per_ticker) >= 2

Position(t) == KeyIndex(per_ticker, t)

(* C3: to_ranked_list returns min(top_n, k) entries, each a ticker of the  *)
(* mapping with its score and bucket, no ticker twice; scores do not       *)
(* increase along the output; no omitted ticker scores above an included   *)
(* one; among equal scores the mapping's iteration order decides, both     *)
(* inside the output and for who is cut.                                   *)
C3_RankedIsStableTopN ==
    pc = "ranked" =>
       LET n == Len(ranked)
           In == { ranked[j].ticker : j \in 1..n }
       IN  /\ n = Min(top_n, Len(per_ticker))
           /\ \A j \in 1..n :
                 /\ Position(ranked[j].ticker) # 0
                 /\ ranked[j].bucket = per_ticker[Position(ranked[j].ticker)]
                 /\ ranked[j].score = ranked[j].bucket.score
           /\ Cardinality(In) = n
           /\ \A i, j \in 1..n :
                 i < j => \/ ranked[i].score > ranked[j].score
                          \/ /\ ranked[i].score = ranked[j].score
                             /\ Position(ranked[i].ticker) < Position(ranked[j].ticker)
           /\ \A k \in DOMAIN per_ticker :
                 per_ticker[k].ticker \notin In =>
                    \A j \in 1..n :
                       \/ ranked[j].score > per_ticker[k].score
                       \/ /\ ranked[j].score = per_ticker[k].score
                          /\ Position(ranked[j].ticker) < k

(* Three tickers ranked with top_n = 2, the cut falling between two        *)
(* tickers of equal score, the first ticker seen not the best              *)
C3_Witness ==
    /\ pc = "ranked"
    /\ Len(per_ticker) = 3
    /\ top_n = 2
    /\ Len(ranked) = 2
    /\ ranked[1].ticker # per_ticker[1].ticker
    /\ \E k \in DOMAIN per_ticker :
          /\ per_ticker[k].ticker \notin {ranked[1].ticker, ranked[2].ticker}
          /\ per_ticker[k].score = ranked[2].score

(* The provider's answer for which the claim promises the 0.0 default *)
Fails(resp) ==
    \/ resp.kind \in {"raise", "none"}
    \/ resp.kind = "data" /\ Len(resp.bars) < 21

InMarketLoop == pc = "run" /\ idx > Len(articles)

(* C4: no exception leaves market_reaction_signal, so the pass is never    *)
(* aborted in its market loop, which calls it once for a ticker and goes   *)
(* on to the next; in the mapping returned, a ticker whose provider        *)
(* raised, returned nothing or returned fewer than 21 bars has had exactly *)
(* 0.0 added to its bucket, every other ticker the term of its own signal, *)
(* and every listed ticker has its bucket.                                 *)
C4_MarketFailureIsolated ==
    /\ pc = "raised" => idx <= Len(articles)
    /\ InMarketLoop =>
          \A k \in DOMAIN per_ticker :
             calls[per_ticker[k].ticker] = IF k < mk THEN 1 ELSE 0
    /\ Returned =>
          /\ \A k \in DOMAIN per_ticker :
                LET b == per_ticker[k]
                    own == IF Fails(provider[b.ticker]) THEN 0
                           ELSE W_MARKET_REACTION * signal_of(provider[b.ticker].bars)
                IN  /\ calls[b.ticker] = 1
                    /\ b.score = SumOver(b.articles) + own
          /\ Keys = Listed

(* A returned pass in which one ticker's provider raised, another's gave   *)
(* too few bars, and a third ticker got a market term that is not zero     *)
C4_Witness ==
    /\ pc = "returned"
    /\ \E k, l, m \in DOMAIN per_ticker :
          /\ provider[per_ticker[k].ticker].kind = "raise"
          /\ k < m
          /\ provider[per_ticker[l].ticker] = Data(ShortHistory)
          /\ l < m
          /\ ~Fails(provider[per_ticker[m].ticker])
          /\ per_ticker[m].score # SumOver(per_ticker[m].articles)

(* The four terms of the claim, from the closes and volumes themselves:    *)
(* pct = (cT / cP - 1) * 100 and vol_mult = vT / max(1, sum20 / 20)        *)
ClaimedSignal(bars) ==
    LET n == Len(bars)
        cT == bars[n].Close
        cP == bars[n - 1].Close
        vT == bars[n].Volume
        sum20 == SumVolume([k \in 1..20 |-> bars[n - 21 + k]])
        floor20 == IF sum20 > 20 THEN sum20 ELSE 20
        up == IF 200 * (cT - cP) > 3 * cP THEN 50 ELSE 0
        down == IF 200 * (cT - cP) < 0 - 3 * cP THEN 0 - 50 ELSE 0
        busy == IF 40 * vT > 3 * floor20 THEN 50 ELSE 0
        quiet == IF 100 * vT < 3 * floor20 THEN 0 - 30 ELSE 0
        sum == up + down + busy + quiet
    IN  IF sum > 100 THEN 100 ELSE IF sum < 0 - 100 THEN 0 - 100 ELSE sum

(* C5: on a history of at least 21 bars market_reaction_signal returns the *)
(* clamp to [-1, 1] of the sum of the four independently checked terms,    *)
(* and on every input its result lies in [-1, 1].                          *)
C5_SignalIsClampedSum ==
    (pc = "market_reaction_signal" /\ ret # Pending) =>
       /\ ret.exc = "none"
       /\ ret.val >= 0 - 100
       /\ ret.val <= 100
       /\ (arg.kind = "data" /\ Len(arg.bars) >= 21) => ret.val = ClaimedSignal(arg.bars)

(* A call on 22 bars whose oldest bar would move the mean volume, with a   *)
(* drop of more than 1.5% on a volume below 0.6 of the mean: -0.8          *)
C5_Witness ==
    /\ pc = "market_reaction_signal"
    /\ ret = Ret(0 - 80)
    /\ arg.kind = "data"
    /\ Len(arg.bars) = 22
    /\ arg.bars[1].Volume = 5000
    /\ arg.bars[22].Volume = 59

(* The step function of the claim, of an age in minutes *)
StepWeight(age) ==
    IF age <= 120 THEN 100
    ELSE IF age <= 1440 THEN 90
    ELSE IF age <= 2880 THEN 75
    ELSE 50

(* The weight the claim gives a published_at: 0.7 when it is missing or    *)
(* no ISO-8601 string, else the step of its age (a timestamp without       *)
(* offset read as UTC)                                                     *)
ClaimedWeight(p, t_now) ==
    IF p.kind # "iso" THEN 70
    ELSE StepWeight(t_now - (p.local - UtcOffset(p.off)))

(* C6: for every published timestamp and every now, recency_weight returns *)
(* the step function of the age, 0.7 for a missing or unparsable           *)
(* timestamp, and always one of 1.0, 0.9, 0.75, 0.5, 0.7.                  *)
C6_RecencyStepFunction ==
    (pc = "recency_weight" /\ ret # Pending) =>
       /\ ret.exc = "none"
       /\ ret.val = ClaimedWeight(arg.published_iso, arg.now)
       /\ ret.val \in {100, 90, 75, 50, 70}

(* What does hold: the same, for every published_at but the ISO-8601       *)
(* strings that carry no offset                                            *)
RecencyStepFunctionWithOffset ==
    (pc = "recency_weight" /\ ret # Pending
       /\ ~(arg.published_iso.kind = "iso" /\ arg.published_iso.off = "")) =>
       /\ ret.exc = "none"
       /\ ret.val = ClaimedWeight(arg.published_iso, arg.now)
       /\ ret.val \in {100, 90, 75, 50, 70}

(* The end-to-end scenario: A1 published now, A2 published 30 h ago *)
Scenario ==
    articles = << Article(<<"XYZ">>, Iso(Clock, "+00:00"), 100, 0, 0),
                  Article(<<"XYZ">>, Iso(Clock - 1800, "+00:00"), 70, 50, 100) >>

(* 0.35*source_weight + 0.20*sentiment + 0.20*catalyst_score               *)
(*   + 0.15*recency_weight, in ten-thousandths                             *)
ClaimedArticleScore(a) ==
    35 * a.source_weight + 20 * a.sentiment + 20 * a.catalyst_score
      + 15 * ClaimedWeight(a.published_at, now)

RECURSIVE ClaimedSum(_)
ClaimedSum(list) ==
    IF list = <<>> THEN 0
    ELSE ClaimedArticleScore(articles[Head(list)]) + ClaimedSum(Tail(list))

(* The bucket's score had market_reaction_signal been stubbed to return v *)
ScoreWithStub(b, v) == b.score - MarketTerm(b.ticker) + 10 * v

(* C7 as stated: in the scenario, with market_reaction stubbed to 0.4, the *)
(* XYZ bucket's score is 1.0925.                                           *)
C7_ScenarioScoreIs10925 ==
    (Returned /\ Scenario) =>
       /\ Len(per_ticker) = 1
       /\ ScoreWithStub(per_ticker[1], 40) = 10925

(* C7 as amended: what a bucket holds when the article loop has ended is   *)
(* the sum of 0.35*source_weight + 0.20*sentiment + 0.20*catalyst_score +  *)
(* 0.15*recency_weight over its articles, and in the scenario, with        *)
(* market_reaction stubbed to 0.4, the XYZ bucket's score is               *)
(* 0.50 + 0.6575 + 0.04 = 1.1975.                                          *)
C7_ArticleScoreFormula ==
    /\ (InMarketLoop /\ mk = 1) =>
          \A k \in DOMAIN per_ticker :
             per_ticker[k].score = ClaimedSum(per_ticker[k].articles)
    /\ (Returned /\ Scenario) =>
          /\ Len(per_ticker) = 1
          /\ per_ticker[1].ticker = "XYZ"
          /\ ClaimedArticleScore(articles[1]) = 5000
          /\ ClaimedArticleScore(articles[2]) = 6575
          /\ ScoreWithStub(per_ticker[1], 40) = 5000 + 6575 + 400
          /\ ScoreWithStub(per_ticker[1], 40) = 11975

(* The scenario's pass has returned *)
C7_Witness ==
    /\ pc = "returned"
    /\ Scenario
    /\ Len(per_ticker) = 1
    /\ per_ticker[1].articles = <<1, 2>>

Published(i) == articles[i].published_at

Missing(p) == p.kind \in {"null", "empty"}

(* C8: in every bucket of the returned mapping no article published at a   *)
(* later instant comes after one published at an earlier instant, and      *)
(* every article without published_at comes after all that have one.       *)
C8_ArticlesNewestFirst ==
    Returned =>
       \A k \in DOMAIN per_ticker :
          LET list == per_ticker[k].articles
          IN  \A i, j \in DOMAIN list :
                 i < j =>
                    /\ (Published(list[i]).kind = "iso" /\ Published(list[j]).kind = "iso") =>
                          Published(list[i]).local - UtcOffset(Published(list[i]).off)
                             >= Published(list[j]).local - UtcOffset(Published(list[j]).off)
                    /\ Missing(Published(list[i])) => Missing(Published(list[j]))

(* What does hold: each bucket's list is in descending order of the        *)
(* published_at strings, None counting as "", equal strings in the order   *)
(* of the batch                                                            *)
ArticlesInDescendingStringOrder ==
    Returned =>
       \A k \in DOMAIN per_ticker :
          LET list == per_ticker[k].articles
          IN  \A i, j \in DOMAIN list :
                 i < j =>
                    /\ ~StrLess(SortKey(Published(list[i])), SortKey(Published(list[j])))
                    /\ SortKey(Published(list[i])) = SortKey(Published(list[j])) =>
                          list[i] < list[j]
                    /\ Missing(Published(list[i])) => Missing(Published(list[j]))

(* C9: a pass that has started comes to its end, whatever the market-data  *)
(* calls do.                                                               *)
C9_PassCompletes == (pc = "run") ~> (pc # "run")

(* What does hold: a pass none of whose tickers' calls hangs comes to its  *)
(* end                                                                     *)
PassCompletesUnlessHung ==
    (pc = "run" /\ \A t \in Tickers : provider[t].kind # "hang") ~> (pc # "run")

(* C10: with the batch, the clock and the provider's answers fixed, every  *)
(* later aggregate-and-rank run returns what the first returned: the same  *)
(* buckets in the same order with the same scores and article order, and   *)
(* the same ranked list.                                                   *)
C10_RepeatedRunsAgree ==
    (first_out.set /\ pc = "ranked") =>
       /\ per_ticker = first_out.per_ticker
       /\ ranked = first_out.ranked

(* A second run has ranked at least two tickers, one of them mentioned by  *)
(* two articles, two of them tied                                          *)
C10_Witness ==
    /\ run = 2
    /\ pc = "ranked"
    /\ first_out.set
    /\ Len(ranked) >= 2
    /\ ranked[1].score = ranked[2].score
    /\ \E j \in DOMAIN ranked : Len(ranked[j].bucket.articles) = 2

(* The article's published_at is an ISO-8601 string carrying no UTC offset *)
NoOffset(p) == p.kind = "iso" /\ p.off = ""

(* The recency weight article i gets in this pass; the pass computes it   *)
(* for the articles that list a ticker (scorer.py:67-69)                   *)
WeightOf(i) == recency_weight(articles[i].published_at, now)

(* C11: whatever the published_at values of the batch (null, empty, no     *)
(* ISO string, ISO with offset, ISO without offset), no exception leaves   *)
(* score_articles_by_ticker, the mapping it returns has a bucket for every *)
(* mentioned ticker, and each article's recency weight is one of 1.0, 0.9, *)
(* 0.75, 0.5 and 0.7.                                                      *)
C11_BadPublishedNeverAborts ==
    /\ pc # "raised"
    /\ pc \in {"run", "returned", "ranked"} =>
          \A i \in DOMAIN articles :
             articles[i].tickers # <<>> =>
                /\ WeightOf(i).exc = "none"
                /\ WeightOf(i).val \in {100, 90, 75, 50, 70}
    /\ Returned => Keys = Listed

(* What does hold: the same for the passes over a batch none of whose      *)
(* ticker-carrying articles has an ISO-8601 published_at without offset,   *)
(* and a pass is aborted by nothing but such an article                    *)
BadPublishedWithOffsetNeverAborts ==
    /\ pc = "raised" =>
          /\ idx <= Len(articles)
          /\ articles[idx].tickers # <<>>
          /\ NoOffset(articles[idx].published_at)
          /\ WeightOf(idx) = Raise("TypeError")
    /\ pc \in {"run", "returned", "ranked"} =>
          \A i \in DOMAIN articles :
             (articles[i].tickers # <<>> /\ ~NoOffset(articles[i].published_at)) =>
                /\ WeightOf(i).exc = "none"
                /\ WeightOf(i).val \in {100, 90, 75, 50, 70}
    /\ Returned =>
          /\ Keys = Listed
          /\ \A i \in DOMAIN articles :
                articles[i].tickers # <<>> => ~NoOffset(articles[i].published_at)

(* The number of schedulers that were started in the session *)
Started == Cardinality({ k \in DOMAIN schedulers : schedulers[k].running })

FirstExecutionEnded == executions >= 2 \/ (executions = 1 /\ script = "waiting")

SecondExecutionEnded == executions >= 3 \/ (executions = 2 /\ script = "waiting")

(* AUTO_START_SCHEDULER is '1' and every field of CRONS reads as hh:mm *)
AutoStartConfigured ==
    /\ env.AUTO_START_SCHEDULER = "1"
    /\ \A k \in DOMAIN env.CRONS : WellFormed(env.CRONS[k])

(* start_scheduler changes nothing when scheduler_started is true *)
StartIsNoOpWhenStarted ==
    (session_state.has /\ session_state.scheduler_started) =>
       LET r == start_scheduler(session_state, schedulers, env.CRONS)
       IN  /\ r.exc = "none"
           /\ r.session_state = session_state
           /\ r.schedulers = schedulers

StartedFlagTellsTheTruth ==
    (session_state.has /\ session_state.scheduler_started) <=> Started >= 1

(* C12: with AUTO_START_SCHEDULER = '1', in one Streamlit session, the     *)
(* scheduler has been started exactly once by the end of the first script  *)
(* execution and is never started a second time; start_scheduler is a      *)
(* no-op whenever scheduler_started is true, and scheduler_started is true *)
(* if and only if a scheduler was started in the session.                  *)
C12_SchedulerStartedOnce ==
    (pc = "streamlit" /\ AutoStartConfigured) =>
       /\ FirstExecutionEnded => Started = 1
       /\ Started <= 1
       /\ StartIsNoOpWhenStarted
       /\ StartedFlagTellsTheTruth

(* What does hold: whatever the environment, no second scheduler is ever   *)
(* started, start_scheduler is a no-op once scheduler_started is true, and *)
(* the flag is true exactly when a scheduler was started.  But the first   *)
(* execution's automatic start fails on the missing session_state key      *)
(* with a warning, and starts nothing: with AUTO_START_SCHEDULER = '1' the *)
(* scheduler is started in the second execution.                           *)
SchedulerStartedInSecondExecution ==
    pc = "streamlit" =>
       /\ Started <= 1
       /\ StartIsNoOpWhenStarted
       /\ StartedFlagTellsTheTruth
       /\ AutoStartConfigured =>
             /\ (executions = 1 /\ script # "auto") => warnings = 1
             /\ executions = 1 => Started = 0
             /\ SecondExecutionEnded => Started = 1

(* The lines a chunk is the "\n"-join of *)
RECURSIVE LinesOf(_)
LinesOf(chunk) ==
    IF FirstLF(chunk) = 0 THEN <<chunk>>
    ELSE <<SubSeq(chunk, 1, FirstLF(chunk) - 1)>>
            \o LinesOf(SubSeq(chunk, FirstLF(chunk) + 1, Len(chunk)))

RECURSIVE LinesOfAll(_)
LinesOfAll(chs) ==
    IF chs = <<>> THEN <<>> ELSE LinesOf(Head(chs)) \o LinesOfAll(Tail(chs))

RECURSIVE NonEmpty(_)
NonEmpty(lines) ==
    IF lines = <<>> THEN <<>>
    ELSE IF Head(lines) = <<>> THEN NonEmpty(Tail(lines))
    ELSE <<Head(lines)>> \o NonEmpty(Tail(lines))

(* Every line of the content is at most max_len characters long *)
LinesFit ==
    \A k \in DOMAIN splitlines(arg.content) :
       Len(splitlines(arg.content)[k]) <= arg.max_len

Posting == pc \in {"posting", "posted"} /\ arg.webhook_url # ""

(* C13: for a content whose every line is at most max_len long,            *)
(* _post_discord_chunked posts only chunks that are non-empty and at most  *)
(* max_len long, and the chunks in posting order hold every line of the    *)
(* content exactly once, in the original order.                            *)
C13_ChunksHoldEveryLineOnce ==
    (Posting /\ LinesFit) =>
       /\ \A k \in DOMAIN sent :
             /\ sent[k] # <<>>
             /\ Len(sent[k]) <= arg.max_len
       /\ pc = "posted" => LinesOfAll(sent) = splitlines(arg.content)

(* What does hold: the chunks posted are the chunks cut, in their order;   *)
(* none is longer than max_len; they hold every non-empty line of the      *)
(* content once and in order; and when no line is empty and every line is  *)
(* shorter than max_len, the claim holds as stated.                        *)
ChunksHoldEveryNonEmptyLineOnce ==
    (Posting /\ LinesFit) =>
       /\ sent = SubSeq(chunks, 1, Len(sent))
       /\ \A k \in DOMAIN sent : Len(sent[k]) <= arg.max_len
       /\ pc = "posted" =>
             /\ sent = chunks
             /\ ret.val.chunks = Len(sent)
             /\ NonEmpty(LinesOfAll(sent)) = NonEmpty(splitlines(arg.content))
             /\ (\A k \in DOMAIN splitlines(arg.content) :
                    /\ splitlines(arg.content)[k] # <<>>
                    /\ Len(splitlines(arg.content)[k]) < arg.max_len) =>
                   /\ \A k \in DOMAIN sent : sent[k] # <<>>
                   /\ LinesOfAll(sent) = splitlines(arg.content)

===========================================================================
